---- MODULE Spec2Model ----
(***************************************************************************)
(* heroku/buildpacks-deb-packages: the dependency resolver                 *)
(* (src/src/determine_packages_to_install.rs over                          *)
(* src/src/debian/package_index.rs), the installer                         *)
(* (src/src/install_packages.rs) and the start of build (src/src/main.rs,  *)
(* src/src/debian/distro.rs, src/src/config).                              *)
(*                                                                         *)
(* Package names are numbers.  RealNames are names that have packages in   *)
(* the index, VirtualNames are names that have none (they may be provided  *)
(* by packages, or be unknown).  Debian versions are numbers under <.      *)
(*                                                                         *)
(* The resolver's inputs (the package index, /var/lib/dpkg/status and the  *)
(* request list) are fixed before it runs and it never changes them.  The  *)
(* model draws each part of an input the first time the resolver reads it  *)
(* (the Draw... and Seal... actions below), and never changes it after:    *)
(* the runs are those of inputs drawn whole before the start.  A part that *)
(* is never read keeps its default: a name is not on the system, a real    *)
(* name has one package without relations.  Names are drawn in order of    *)
(* first mention (the next unused real or virtual name), since the         *)
(* resolver treats all names alike.                                        *)
(***************************************************************************)
EXTENDS Integers, Sequences, FiniteSets, TLC

VARIABLES
    \* ---- resolver inputs
    package_index,            \* PackageIndex: the two maps and the counter
    added,                    \* the packages given to add_package, in call order
    system_packages,          \* keys of the map read from /var/lib/dpkg/status
    requested_packages,       \* the requests taken from the IndexSet so far
    env,                      \* which parts of the inputs are drawn, and their size
    \* ---- resolver state
    state,                    \* where determine_packages_to_install is
    calls,                    \* the activations of visit, outermost first
    visit_stack,              \* IndexSet<String>
    package_install_details,  \* IndexMap<String, InstallRecord> of this request
    system_install_details,   \* IndexMap<String, InstallRecord> of earlier requests
    warnings,                 \* Vec<DependencyWarning>
    result,                   \* what determine_packages_to_install returned
    \* ---- installer inputs
    distro,                   \* Distro of the build
    packages_to_install,      \* Vec<RepositoryPackage> given to install_packages
    odd,                      \* how far the drawn inputs are from the plain ones
    \* ---- installer state
    builds,                   \* builds started so far
    build_pc,                 \* where install_packages is
    new_metadata,             \* InstallationMetadata of this build
    cache,                    \* the install layer the last successful build left
    layer_state,              \* LayerState of the install layer
    layer,                    \* the install layer: metadata, files, env
    tasks,                    \* the download_and_extract tasks of the JoinSet
    temp_dir,                 \* std::env::temp_dir(): file name -> bytes
    install_result,           \* what install_packages returned
    \* ---- the build before the package index
    main_pc,                  \* where build is
    config,                   \* BuildpackConfig read from project.toml
    target,                   \* context.target
    target_distro,            \* what Distro::try_from(&context.target) returned
    source_list               \* the Vec<Source> given to create_package_index

resolver_vars ==
    << package_index, added, system_packages, requested_packages, env, state, calls,
       visit_stack, package_install_details, system_install_details, warnings,
       result >>

install_vars ==
    << distro, packages_to_install, odd, builds, build_pc, new_metadata, cache,
       layer_state, layer, tasks, temp_dir, install_result >>

build_vars == << main_pc, config, target, target_distro, source_list >>

vars == << resolver_vars, install_vars, build_vars >>

----------------------------------------------------------------------------
(* Bounds *)

NumReal == 4

NumVirtual == 2

\* Total size of the drawn inputs: dependency and provides atoms, extra
\* versions, system packages, requests and the flags set on them.
MaxSize == 6
MaxRequests == 2
MaxVersions == 1

\* The package index on its own: calls of add_package, the names of the
\* packages added (1 .. NumIndexed) and their versions (1 .. NumVersions).
MaxAdds == 3
NumIndexed == 2
NumVersions == 3

\* Installer: packages of an install list, builds in a row, and how many
\* parts of the inputs differ from the plain ones (see PlainBody).
MaxPackages == 2
MaxBuilds == 2
MaxOdd == 2

RealNames == 1 .. NumReal

VirtualNames == (NumReal + 1) .. (NumReal + NumVirtual)

Names == RealNames \cup VirtualNames

----------------------------------------------------------------------------
(* Option, IndexMap and IndexSet *)

None == << >>

Some(x) == << x >>

Range(s) == { s[i] : i \in DOMAIN s }

\* IndexMap: entries in insertion order.
IndexMapKeys(m) == { m[i].key : i \in DOMAIN m }

IndexMapGet(m, k) == m[CHOOSE i \in DOMAIN m : m[i].key = k].value

\* IndexMap::insert: a new key is appended, an existing key keeps its place
\* and gets the new value.
IndexMapInsert(m, k, v) ==
    IF k \in IndexMapKeys(m)
    THEN [ i \in DOMAIN m |-> IF m[i].key = k THEN [key |-> k, value |-> v] ELSE m[i] ]
    ELSE Append(m, [key |-> k, value |-> v])

\* IndexSet::insert: no effect when the value is present.
IndexSetInsert(s, x) == IF x \in Range(s) THEN s ELSE Append(s, x)

\* IndexSet::shift_remove
IndexSetShiftRemove(s, x) == SelectSeq(s, LAMBDA y : y # x)

----------------------------------------------------------------------------
(* RepositoryPackage and PackageIndex *)

\* The checksum and the Filename of a package are its own.
RepositoryPackage(n, v, d, pd, pr) ==
    [ name |-> n, version |-> v, sha256sum |-> << n, v >>,
      filename |-> << "pool", n, v >>, depends |-> d, pre_depends |-> pd,
      provides |-> pr ]

NoPackage == RepositoryPackage(0, 0, << >>, << >>, {})

\* RepositoryPackage::get_dependencies: the names of Depends, then of
\* Pre-Depends, each once.
get_dependencies(package) ==
    package.depends \o SelectSeq(package.pre_depends, LAMBDA d : d \notin Range(package.depends))

\* RepositoryPackage::provides_dependencies
provides_dependencies(package) == package.provides

PackageIndexDefault ==
    [ name_to_repository_packages |-> [n \in Names |-> << >>],
      provides_to_packages |-> [n \in Names |-> << >>],
      packages_indexed |-> 0 ]

\* An add_package that indexes the package under its name only.
add_package_by_name_only(index, package) ==
    [ name_to_repository_packages |->
          [index.name_to_repository_packages EXCEPT ![package.name] = Append(@, package)],
      provides_to_packages |-> index.provides_to_packages,
      packages_indexed |-> index.packages_indexed + 1 ]

add_package(index, package) ==
    [ name_to_repository_packages |->
          [index.name_to_repository_packages EXCEPT ![package.name] = Append(@, package)],
      provides_to_packages |->
          [ n \in Names |->
              IF n \in provides_dependencies(package)
              THEN Append(index.provides_to_packages[n], package)
              ELSE index.provides_to_packages[n] ],
      packages_indexed |-> index.packages_indexed + 1 ]

\* A lookup that takes the package added first, whatever its version.
get_first_added(index, package_name) ==
    LET repository_packages == index.name_to_repository_packages[package_name]
    IN  IF repository_packages = << >> THEN None ELSE Some(Head(repository_packages))

\* The stable sort by descending version puts first the earliest added
\* package among those of the greatest version.
get_highest_available_version(index, package_name) ==
    LET repository_packages == index.name_to_repository_packages[package_name]
        best == { i \in DOMAIN repository_packages :
                    \A j \in DOMAIN repository_packages :
                        repository_packages[j].version <= repository_packages[i].version }
    IN  IF repository_packages = << >>
        THEN None
        ELSE Some(repository_packages[CHOOSE i \in best : \A j \in best : i <= j])

\* PackageIndex::get_virtual_package_providers: provides_to_packages.get(..),
\* a key being present from the first package pushed under it.
get_virtual_package_providers(index, package) ==
    IF index.provides_to_packages[package] = << >>
    THEN None
    ELSE Some(index.provides_to_packages[package])

\* PackageIndex::get_providers: the names of the packages that provide a name.
get_providers(index, package) ==
    { index.provides_to_packages[package][i].name :
        i \in DOMAIN index.provides_to_packages[package] }

----------------------------------------------------------------------------
(* The inputs, drawn when first read *)

Max(a, b) == IF a >= b THEN a ELSE b

Min(a, b) == IF a <= b THEN a ELSE b

EnvInit ==
    [ drawn |-> {},      \* real names whose packages are drawn
      queried |-> {},    \* names whose set of providers is final
      asked |-> {},      \* names whose presence on the system is drawn
      reals |-> 0,       \* real names mentioned so far: 1 .. reals
      virtuals |-> 0,    \* virtual names mentioned so far
      versions |-> 0,
      size |-> 0 ]

Mention(e, n) ==
    IF n \in RealNames
    THEN [e EXCEPT !.reals = Max(@, n)]
    ELSE [e EXCEPT !.virtuals = Max(@, n - NumReal)]

PickReal(e) == 1 .. Min(e.reals + 1, NumReal)

PickVirtual(e) == (NumReal + 1) .. (NumReal + Min(e.virtuals + 1, NumVirtual))

Pick(e) == PickReal(e) \cup PickVirtual(e)

MentionAll(e, s) ==
    LET r == s \cap RealNames
        v == s \cap VirtualNames
    IN  [e EXCEPT !.reals = Max(@, Cardinality(r \cup (1 .. @))),
                  !.virtuals = Max(@, Cardinality(v \cup ((NumReal + 1) .. (NumReal + @))))]

\* The packages of real name n: one package of version 2 with at most one
\* Depends atom, one Pre-Depends atom and one Provides atom, and possibly a
\* second package of the same name, of version 1 or 3 and without
\* relations, added before or after it.  `must` is a name the package has
\* to provide (0: none).  Each draw comes with the environment after it.
PackageDraws(e, n, must) ==
    LET dependsOf == { << >> } \cup { << x >> : x \in Pick(e) }
        preOf(d) == { << >> } \cup (IF d = << >> THEN {} ELSE { << x >> : x \in Pick(MentionAll(e, Range(d))) \ Range(d) })
        providesOf(d, pd) ==
            IF must # 0
            THEN { {must} }
            ELSE { {} } \cup
                 { {v} : v \in PickVirtual(MentionAll(e, Range(d) \cup Range(pd))) \ e.queried }
        extras(p) ==
            { << p >> } \cup
            IF e.versions >= MaxVersions THEN {} ELSE UNION { { << p, RepositoryPackage(n, v, << >>, << >>, {}) >>,
                      << RepositoryPackage(n, v, << >>, << >>, {}), p >> } : v \in {1, 3} }
    IN  UNION { UNION { UNION { {
            [ packages |-> ps,
              env |-> [ MentionAll(e, Range(d) \cup Range(pd) \cup pr)
                          EXCEPT !.drawn = @ \cup {n},
                                 !.versions = @ + Len(ps) - 1,
                                 !.size = @ + Len(d) + Len(pd) + Cardinality(pr) + Len(ps) - 1 ] ]
            : ps \in extras(RepositoryPackage(n, 2, d, pd, pr)) }
            : pr \in providesOf(d, pd) } : pd \in preOf(d) } : d \in dependsOf }

RECURSIVE AddAll(_, _)
AddAll(index, packages) ==
    IF packages = << >>
    THEN index
    ELSE AddAll(add_package(index, Head(packages)), Tail(packages))

----------------------------------------------------------------------------
(* determine_packages_to_install and visit *)

InstallRecord(package, path) == [repository_package |-> package, dependency_path |-> path]

Frame(n, size) ==
    [ package |-> n, pc |-> "enter", repository_package |-> NoPackage, next |-> 1,
      size_at_entry |-> size ]

NoResult == [kind |-> "none", package |-> 0, providers |-> {}, packages_to_install |-> << >>]

ResolverInit ==
    /\ package_index = PackageIndexDefault
    /\ added = << >>
    /\ system_packages = {}
    /\ requested_packages = << >>
    /\ env = EnvInit
    /\ state = "idle"
    /\ calls = << >>
    /\ visit_stack = << >>
    /\ package_install_details = << >>
    /\ system_install_details = << >>
    /\ warnings = << >>
    /\ result = NoResult

Top == calls[Len(calls)]

AtEnter == state = "visit" /\ calls # << >> /\ Top.pc = "enter"

AtLoop == state = "visit" /\ calls # << >> /\ Top.pc = "loop"

requested_package == requested_packages[Len(requested_packages)]

Dependencies(frame) == get_dependencies(frame.repository_package)

\* A loop that runs whatever the request says about its dependencies.
AtDependencyOfAnyRequest ==
    /\ AtLoop
    /\ Top.next <= Len(Dependencies(Top))

\* The dependency the loop of the top activation is about to look at.
AtDependency ==
    /\ AtLoop
    /\ ~requested_package.skip_dependencies
    /\ Top.next <= Len(Dependencies(Top))

\* What a warning is pushed with; the last three fields record where it was
\* pushed: the request, the depth of the visit call, and whether that call
\* is inside the dependency loop of some package.
Warning(kind, n, pname, pversion, by) ==
    [ kind |-> kind, requested_package |-> n, package_name |-> pname,
      package_version |-> pversion, installed_by |-> by,
      request |-> Len(requested_packages), depth |-> Len(calls),
      transitive |-> \E i \in DOMAIN calls : calls[i].pc = "loop" ]

Return == calls' = SubSeq(calls, 1, Len(calls) - 1)

\* A call of visit(n, ...): a new activation, or, when an enclosing
\* activation was entered for the same name with the same keys in
\* package_install_details, the start of an unbounded recursion.
Recurses(n) ==
    \E i \in DOMAIN calls :
        /\ calls[i].package = n
        /\ calls[i].size_at_entry = Len(package_install_details)

----------------------------------------------------------------------------
(* Environment: the inputs the resolver is about to read *)

\* Whether name n is a key of the dpkg status map, drawn when visit is
\* entered for n or the dependency loop tests n.
DrawSystem(n) ==
    /\ n \notin env.asked
    /\ \/ AtEnter /\ Top.package = n
       \/ AtDependency /\ Dependencies(Top)[Top.next] = n
    /\ \E installed \in BOOLEAN :
        /\ installed => env.size < MaxSize
        /\ system_packages' = IF installed THEN system_packages \cup {n} ELSE system_packages
        /\ env' = [env EXCEPT !.asked = @ \cup {n},
                              !.size = IF installed THEN @ + 1 ELSE @]
    /\ UNCHANGED << package_index, requested_packages, state, calls, visit_stack,
                    package_install_details, system_install_details, warnings, result >>
    /\ UNCHANGED << added, install_vars, build_vars >>

\* A visit that goes on to the index without the test of system_packages.
AtLookupIgnoringSystem(n) ==
    /\ AtEnter
    /\ Top.package = n
    /\ n \in env.asked
    /\ n \notin IndexMapKeys(system_install_details)

\* visit(n) is past its two shortcuts and about to look n up in the index.
AtLookup(n) ==
    /\ AtEnter
    /\ Top.package = n
    /\ n \in env.asked
    /\ n \notin system_packages
    /\ n \notin IndexMapKeys(system_install_details)

\* The packages named n, drawn when get_highest_available_version(n) is
\* about to be called.
DrawPackages(n) ==
    /\ AtLookup(n)
    /\ n \in RealNames \ env.drawn
    /\ \E draw \in PackageDraws(env, n, 0) :
        /\ draw.env.size <= MaxSize
        /\ package_index' = AddAll(package_index, draw.packages)
        /\ added' = added \o draw.packages
        /\ env' = draw.env
    /\ UNCHANGED << system_packages, requested_packages, state, calls, visit_stack,
                    package_install_details, system_install_details, warnings, result >>
    /\ UNCHANGED << install_vars, build_vars >>

\* One more package that provides v, drawn when get_providers(v) is about
\* to be called.
DrawProvider(v, n) ==
    /\ AtLookup(v)
    /\ v \in VirtualNames \ env.queried
    /\ n \in PickReal(env) \ env.drawn
    /\ \E draw \in PackageDraws(Mention(env, n), n, v) :
        /\ draw.env.size <= MaxSize
        /\ package_index' = AddAll(package_index, draw.packages)
        /\ added' = added \o draw.packages
        /\ env' = draw.env
    /\ UNCHANGED << system_packages, requested_packages, state, calls, visit_stack,
                    package_install_details, system_install_details, warnings, result >>
    /\ UNCHANGED << install_vars, build_vars >>

\* No further package provides v.
SealProviders(v) ==
    /\ AtLookup(v)
    /\ v \in VirtualNames \ env.queried
    /\ env' = [env EXCEPT !.queried = @ \cup {v}]
    /\ UNCHANGED << package_index, system_packages, requested_packages, state, calls,
                    visit_stack, package_install_details, system_install_details,
                    warnings, result >>
    /\ UNCHANGED << added, install_vars, build_vars >>

----------------------------------------------------------------------------
(* Program: determine_packages_to_install *)

RequestedPackage(n, skip, force) == [name |-> n, skip_dependencies |-> skip, force |-> force]

RequestSize(r) ==
    1 + (IF r.skip_dependencies THEN 1 ELSE 0) + (IF r.force THEN 1 ELSE 0)

\* The next iteration of `for requested_package in requested_packages`:
\* fresh visit_stack and package_install_details, then visit(name,
\* skip_dependencies, ...).  The IndexSet holds no request twice.
BeginRequest ==
    /\ state = "idle"
    /\ Len(requested_packages) < MaxRequests
    /\ \E n \in Pick(env), skip \in BOOLEAN, force \in BOOLEAN :
        LET r == RequestedPackage(n, skip, force) IN
        /\ r \notin Range(requested_packages)
        /\ env.size + RequestSize(r) <= MaxSize
        /\ requested_packages' = Append(requested_packages, r)
        /\ env' = [Mention(env, n) EXCEPT !.size = @ + RequestSize(r)]
        /\ calls' = << Frame(n, 0) >>
    /\ state' = "visit"
    /\ visit_stack' = << >>
    /\ package_install_details' = << >>
    /\ UNCHANGED << package_index, system_packages, system_install_details, warnings,
                    result >>
    /\ UNCHANGED << added, install_vars, build_vars >>

\* visit: `if let Some(system_package) = system_packages.get(package)`
VisitAlreadyOnSystem ==
    /\ AtEnter
    /\ Top.package \in env.asked
    /\ Top.package \in system_packages
    /\ warnings' =
        IF visit_stack = << >>
        THEN Append(warnings,
                    Warning("AlreadyInstalledOnSystem", Top.package, Top.package, 0, 0))
        ELSE warnings
    /\ Return
    /\ UNCHANGED << package_index, system_packages, requested_packages, env, state,
                    visit_stack, package_install_details, system_install_details, result >>
    /\ UNCHANGED << added, install_vars, build_vars >>

\* visit: `if let Some(install_record) = system_install_details.get(package)`;
\* `.first().expect(...)` panics on an empty dependency_path.
VisitAlreadyInstalled ==
    /\ AtEnter
    /\ Top.package \in env.asked
    /\ Top.package \notin system_packages
    /\ Top.package \in IndexMapKeys(system_install_details)
    /\ LET install_record == IndexMapGet(system_install_details, Top.package) IN
        IF visit_stack # << >>
        THEN Return /\ UNCHANGED << warnings, state >>
        ELSE IF install_record.dependency_path = << >>
        THEN state' = "panic" /\ UNCHANGED << warnings, calls >>
        ELSE /\ warnings' =
                    Append(warnings,
                           Warning("AlreadyInstalledByOtherPackage", Top.package,
                                   install_record.repository_package.name,
                                   install_record.repository_package.version,
                                   Head(install_record.dependency_path)))
             /\ Return
             /\ UNCHANGED state
    /\ UNCHANGED << package_index, system_packages, requested_packages, env,
                    visit_stack, package_install_details, system_install_details, result >>
    /\ UNCHANGED << added, install_vars, build_vars >>

\* visit: `if let Some(package) = get_highest_available_version(package)`:
\* record it with the current visit_stack as its path, push its name.
VisitPackage ==
    /\ AtLookup(Top.package)
    /\ Top.package \in VirtualNames \cup env.drawn
    /\ get_highest_available_version(package_index, Top.package) # None
    /\ LET package == get_highest_available_version(package_index, Top.package)[1] IN
        /\ package_install_details' =
                IndexMapInsert(package_install_details, package.name,
                               InstallRecord(package, visit_stack))
        /\ visit_stack' = IndexSetInsert(visit_stack, package.name)
        /\ calls' = [calls EXCEPT ![Len(calls)] =
                        [@ EXCEPT !.pc = "loop", !.repository_package = package]]
    /\ UNCHANGED << package_index, system_packages, requested_packages, env, state,
                    system_install_details, warnings, result >>
    /\ UNCHANGED << added, install_vars, build_vars >>

\* visit: one iteration of `for dependency in package.get_dependencies()`.
VisitDependency ==
    /\ AtDependency
    /\ LET dependency == Dependencies(Top)[Top.next]
           already_processed ==
               \/ dependency \in system_packages
               \/ dependency \in IndexMapKeys(package_install_details)
           advanced == [calls EXCEPT ![Len(calls)] = [@ EXCEPT !.next = @ + 1]]
       IN  /\ dependency \in env.asked
           /\ IF already_processed
              THEN calls' = advanced /\ UNCHANGED state
              ELSE IF Recurses(dependency)
              THEN state' = "overflow" /\ UNCHANGED calls
              ELSE /\ calls' = Append(advanced,
                                      Frame(dependency, Len(package_install_details)))
                   /\ UNCHANGED state
    /\ UNCHANGED << package_index, system_packages, requested_packages, env,
                    visit_stack, package_install_details, system_install_details,
                    warnings, result >>
    /\ UNCHANGED << added, install_vars, build_vars >>

\* visit: after the loop (or without it, under skip_dependencies):
\* `visit_stack.shift_remove(&package.name)` and `Ok(())`.
VisitPackageDone ==
    /\ AtLoop
    /\ ~AtDependency
    /\ visit_stack' = IndexSetShiftRemove(visit_stack, Top.repository_package.name)
    /\ Return
    /\ UNCHANGED << package_index, system_packages, requested_packages, env, state,
                    package_install_details, system_install_details, warnings, result >>
    /\ UNCHANGED << added, install_vars, build_vars >>

\* A match that takes a provider whenever there is one.
MatchAnyProvider(providers) == IF providers = {} THEN "none" ELSE "one"

\* get_provider_for_virtual_package: the arm of
\* `match providers.iter().collect::<Vec<_>>().as_slice()`.
MatchProviders(providers) ==
    IF Cardinality(providers) = 1
    THEN "one"
    ELSE IF providers = {} THEN "none" ELSE "many"

\* visit: the else branch.  get_provider_for_virtual_package returns the
\* highest version of the only provider (with a warning when visit_stack
\* is empty) and visit is called for it, or fails.
VisitVirtual ==
    /\ AtLookup(Top.package)
    /\ Top.package \in VirtualNames \cup env.drawn
    /\ Top.package \in VirtualNames => Top.package \in env.queried
    /\ get_highest_available_version(package_index, Top.package) = None
    /\ LET package == Top.package
           providers == get_providers(package_index, package)
           failed(kind, ps) ==
               /\ state' = "err"
               /\ result' = [NoResult EXCEPT !.kind = kind, !.package = package,
                                             !.providers = ps]
               /\ UNCHANGED << calls, warnings >>
       IN  IF MatchProviders(providers) = "one"
           THEN LET providing_package == CHOOSE n \in providers : TRUE
                    found == get_highest_available_version(package_index, providing_package)
                IN  IF found = None
                    THEN failed("PackageNotFound", {})
                    ELSE /\ warnings' =
                              IF visit_stack = << >>
                              THEN Append(warnings,
                                          Warning("VirtualPackageHasOnlyOneImplementor",
                                                  package, found[1].name,
                                                  found[1].version, 0))
                              ELSE warnings
                         /\ IF Recurses(found[1].name)
                            THEN state' = "overflow" /\ UNCHANGED << calls, result >>
                            ELSE /\ calls' =
                                      Append([calls EXCEPT ![Len(calls)] =
                                                  [@ EXCEPT !.pc = "virtual"]],
                                             Frame(found[1].name,
                                                   Len(package_install_details)))
                                 /\ UNCHANGED << state, result >>
           ELSE IF MatchProviders(providers) = "none"
           THEN failed("PackageNotFound", {})
           ELSE failed("VirtualPackageMustBeSpecified", providers)
    /\ UNCHANGED << package_index, system_packages, requested_packages, env,
                    visit_stack, package_install_details, system_install_details >>
    /\ UNCHANGED << added, install_vars, build_vars >>

\* visit: `Ok(())` after the call for the provider returned.
VisitVirtualDone ==
    /\ state = "visit"
    /\ calls # << >>
    /\ Top.pc = "virtual"
    /\ Return
    /\ UNCHANGED << package_index, system_packages, requested_packages, env, state,
                    visit_stack, package_install_details, system_install_details,
                    warnings, result >>
    /\ UNCHANGED << added, install_vars, build_vars >>

RECURSIVE InsertAll(_, _)
InsertAll(into, entries) ==
    IF entries = << >>
    THEN into
    ELSE InsertAll(IndexMapInsert(into, Head(entries).key, Head(entries).value),
                   Tail(entries))

\* After visit returned Ok: the records of this request are inserted into
\* system_install_details in their order.
EndRequest ==
    /\ state = "visit"
    /\ calls = << >>
    /\ system_install_details' = InsertAll(system_install_details, package_install_details)
    /\ state' = "idle"
    /\ UNCHANGED << package_index, system_packages, requested_packages, env, calls,
                    visit_stack, package_install_details, warnings, result >>
    /\ UNCHANGED << added, install_vars, build_vars >>

collect_packages(details) ==
    [ i \in DOMAIN details |-> details[i].value.repository_package ]

\* After the last request: Ok((packages_to_install, log)).  The build calls
\* this with at least one request.
Finish ==
    /\ state = "idle"
    /\ requested_packages # << >>
    /\ state' = "ok"
    /\ result' = [NoResult EXCEPT !.kind = "Ok",
                                  !.packages_to_install =
                                      collect_packages(system_install_details)]
    /\ UNCHANGED << package_index, system_packages, requested_packages, env, calls,
                    visit_stack, package_install_details, system_install_details,
                    warnings >>
    /\ UNCHANGED << added, install_vars, build_vars >>

----------------------------------------------------------------------------
(* The package index on its own: any packages, added in any order *)

IndexedNames == 1 .. NumIndexed

\* The Provides atoms of an added package: a name that also has packages
\* (NumIndexed), a name that has none, both, or nothing.
ProvidesChoices == SUBSET { NumIndexed, NumIndexed + 1 }

\* package_index.add_package(package)
AddPackage ==
    /\ Len(added) < MaxAdds
    /\ \E n \in IndexedNames, v \in 1 .. NumVersions, pr \in ProvidesChoices :
        LET package == RepositoryPackage(n, v, << >>, << >>, pr) IN
        /\ package_index' = add_package(package_index, package)
        /\ added' = Append(added, package)
    /\ UNCHANGED << system_packages, requested_packages, env, state, calls, visit_stack,
                    package_install_details, system_install_details, warnings, result >>
    /\ UNCHANGED << install_vars, build_vars >>

IndexNext == AddPackage

----------------------------------------------------------------------------
(* Installer: strings and paths.  A string is a sequence of tokens; "/",   *)
(* "\n", "\r" and "prefix=" are tokens of their own.                        *)

\* str::strip_prefix
strip_prefix(s, prefix) ==
    IF Len(s) >= Len(prefix) /\ SubSeq(s, 1, Len(prefix)) = prefix
    THEN Some(SubSeq(s, Len(prefix) + 1, Len(s)))
    ELSE None

\* A trim that leaves the leading separators in place.
trim_nothing(s, c) == s

\* str::trim_start_matches
RECURSIVE trim_start_matches(_, _)
trim_start_matches(s, c) ==
    IF s # << >> /\ Head(s) = c THEN trim_start_matches(Tail(s), c) ELSE s

\* Path::join: an absolute path replaces the base, anything else (the
\* empty path too) is appended after a separator.
join(path, rel) ==
    IF rel # << >> /\ Head(rel) = "/"
    THEN rel
    ELSE IF path # << >> /\ path[Len(path)] = "/"
    THEN path \o rel
    ELSE path \o << "/" >> \o rel

\* str::lines: split at "\n", a "\r" before it dropped, no empty last line.
RECURSIVE lines(_)
lines(contents) ==
    IF contents = << >>
    THEN << >>
    ELSE IF \E i \in DOMAIN contents : contents[i] = "\n"
    THEN LET i == CHOOSE i \in DOMAIN contents :
                      /\ contents[i] = "\n"
                      /\ \A j \in 1 .. (i - 1) : contents[j] # "\n"
             line == SubSeq(contents, 1, i - 1)
         IN  << IF line # << >> /\ line[Len(line)] = "\r"
                THEN SubSeq(line, 1, Len(line) - 1)
                ELSE line >>
             \o lines(SubSeq(contents, i + 1, Len(contents)))
    ELSE << contents >>

\* [String]::join("\n")
RECURSIVE join_lines(_)
join_lines(ls) ==
    IF ls = << >>
    THEN << >>
    ELSE IF Len(ls) = 1
    THEN ls[1]
    ELSE ls[1] \o << "\n" >> \o join_lines(Tail(ls))

\* The path of the install layer.
install_path == << "/", "layer" >>

\* rewrite_package_config, on the contents of the file.
rewrite_package_config(contents, path) ==
    LET rewrite(line) ==
            LET prefix_value == strip_prefix(line, << "prefix=" >>)
            IN  IF prefix_value # None
                THEN << "prefix=" >> \o join(path, trim_start_matches(prefix_value[1], "/"))
                ELSE line
    IN  join_lines([ i \in DOMAIN lines(contents) |-> rewrite(lines(contents)[i]) ])

\* A file of the layer: the directory it is in (the segments of its path
\* under the layer), its name (file_stem as its parts between the dots, and
\* extension), and its contents; `origin` is the archive it was unpacked
\* from and `archived` its contents there.
LayerFile(origin, parent, stem, ext, contents) ==
    [ origin |-> origin, parent |-> parent, stem |-> stem, ext |-> ext,
      contents |-> contents, archived |-> contents ]

\* MultiarchName::from(&distro.architecture), for amd64.
multiarch_name == "x86_64-linux-gnu"

PkgConfigDir == << "usr", "lib", multiarch_name, "pkgconfig" >>

DocDir == << "usr", "share", "doc" >>

\* Path::file_name of a directory
dir_name(dir) == IF dir = << >> THEN None ELSE Some(dir[Len(dir)])

is_package_config(entry) ==
    dir_name(entry.parent) = Some("pkgconfig") /\ entry.ext = "pc"

\* rewrite_package_configs: every file of the walk that is_package_config.
rewrite_package_configs(files) ==
    { IF is_package_config(entry)
      THEN [entry EXCEPT !.contents = rewrite_package_config(@, install_path)]
      ELSE entry : entry \in files }

\* Path::file_stem and Path::extension of an archive member name, given as
\* its parts between the dots.
file_stem(name) == IF Len(name) <= 1 THEN name ELSE SubSeq(name, 1, Len(name) - 1)

extension(name) == IF Len(name) <= 1 THEN None ELSE Some(name[Len(name)])

----------------------------------------------------------------------------
(* Installer: configure_layer_environment *)

\* install_path.join("usr/lib/..."): the path of a directory of the layer.
RECURSIVE layer_dir(_, _)
layer_dir(path, segments) ==
    IF segments = << >>
    THEN path
    ELSE layer_dir(join(path, << Head(segments) >>), Tail(segments))

\* as_os_str().len()
RECURSIVE os_str_len(_)
os_str_len(path) ==
    IF path = << >> THEN 0 ELSE Len(Head(path)) + os_str_len(Tail(path))

\* The name of an entry as its parts between the dots.
entry_name(entry) == Append(entry.stem, entry.ext)

\* shared_library_file: the extensions are taken off the name one by one
\* until one is "so" or none is left.
RECURSIVE shared_library_file(_)
shared_library_file(name) ==
    IF extension(name) = None
    THEN FALSE
    ELSE IF extension(name) = Some("so")
    THEN TRUE
    ELSE shared_library_file(file_stem(name))

\* header_file
header_file(name) == extension(name) = Some("h")

\* `condition(entry.path())`, the condition given by its name.
meets(condition, name) ==
    IF condition = "shared_library_file"
    THEN shared_library_file(name)
    ELSE header_file(name)

\* Path::starts_with on the segments under the layer: WalkDir::new(dir)
\* yields the entries below dir.
starts_with(dir, base) ==
    Len(dir) >= Len(base) /\ SubSeq(dir, 1, Len(base)) = base

\* A sort that leaves the paths as the walk found them.
leave_unsorted(paths) == paths

\* Vec::sort_by_key(|v| Reverse(len)): stable, the longest first.
RECURSIVE sort_by_key_reverse_len(_)
sort_by_key_reverse_len(paths) ==
    IF paths = << >>
    THEN << >>
    ELSE LET sorted == sort_by_key_reverse_len(SubSeq(paths, 1, Len(paths) - 1))
             last == paths[Len(paths)]
             before == SelectSeq(sorted, LAMBDA v : os_str_len(v) >= os_str_len(last))
             after == SelectSeq(sorted, LAMBDA v : os_str_len(v) < os_str_len(last))
         IN  before \o << last >> \o after

\* find_all_dirs_containing: `walk` is the entries of the layer in the order
\* WalkDir yields them; the parent of every entry under starting_dir that
\* meets the condition is pushed, then the matches are sorted.
find_all_dirs_containing(path, starting_dir, condition, walk) ==
    LET found == SelectSeq(walk, LAMBDA entry :
                               /\ starts_with(entry.parent, starting_dir)
                               /\ meets(condition, entry_name(entry)))
    IN  sort_by_key_reverse_len([ i \in DOMAIN found |-> layer_dir(path, found[i].parent) ])

RECURSIVE IndexSetInsertAll(_, _)
IndexSetInsertAll(acc, dirs) ==
    IF dirs = << >>
    THEN acc
    ELSE IndexSetInsertAll(IndexSetInsert(acc, Head(dirs)), Tail(dirs))

\* The fold over the roots: the directories found under a root, then the
\* root, into the IndexSet.
RECURSIVE fold_dirs(_, _, _, _, _)
fold_dirs(acc, path, roots, condition, walk) ==
    IF roots = << >>
    THEN acc
    ELSE fold_dirs(IndexSetInsert(
                       IndexSetInsertAll(acc,
                           find_all_dirs_containing(path, Head(roots), condition, walk)),
                       layer_dir(path, Head(roots))),
                   path, Tail(roots), condition, walk)

\* [OsString]::join(":")
RECURSIVE join_paths(_)
join_paths(paths) ==
    IF paths = << >>
    THEN << >>
    ELSE IF Len(paths) = 1
    THEN paths[1]
    ELSE paths[1] \o << ":" >> \o join_paths(Tail(paths))

\* prepend_to_env_var: the value the variable is prepended with.
prepend_to_env_var(layer_env, name, paths) ==
    [layer_env EXCEPT ![name] = join_paths(paths)]

LibraryRoots ==
    << << "usr", "lib", multiarch_name >>, << "usr", "lib" >>,
       << "lib", multiarch_name >>, << "lib" >> >>

IncludeRoots == << << "usr", "include", multiarch_name >>, << "usr", "include" >> >>

EnvVars ==
    { "PATH", "LD_LIBRARY_PATH", "LIBRARY_PATH", "INCLUDE_PATH", "CPATH", "CPPPATH",
      "PKG_CONFIG_PATH" }

\* LayerEnv::new()
NewLayerEnv == [ name \in EnvVars |-> << >> ]

configure_layer_environment(path, walk) ==
    LET bin_paths == << layer_dir(path, << "bin" >>), layer_dir(path, << "usr", "bin" >>),
                        layer_dir(path, << "usr", "sbin" >>) >>
        library_paths == fold_dirs(<< >>, path, LibraryRoots, "shared_library_file", walk)
        include_paths == fold_dirs(<< >>, path, IncludeRoots, "header_file", walk)
        pkg_config_paths ==
            << layer_dir(path, PkgConfigDir),
               layer_dir(path, << "usr", "lib", "pkgconfig" >>) >>
        env1 == prepend_to_env_var(NewLayerEnv, "PATH", bin_paths)
        env2 == prepend_to_env_var(env1, "LD_LIBRARY_PATH", library_paths)
        env3 == prepend_to_env_var(env2, "LIBRARY_PATH", library_paths)
        env4 == prepend_to_env_var(env3, "INCLUDE_PATH", include_paths)
        env5 == prepend_to_env_var(env4, "CPATH", include_paths)
        env6 == prepend_to_env_var(env5, "CPPPATH", include_paths)
    IN  prepend_to_env_var(env6, "PKG_CONFIG_PATH", pkg_config_paths)

\* The orders in which a walk may yield the entries of the layer.
RECURSIVE Walks(_)
Walks(entries) ==
    IF entries = {}
    THEN { << >> }
    ELSE UNION { { << entry >> \o walk : walk \in Walks(entries \ {entry}) } :
                 entry \in entries }

----------------------------------------------------------------------------
(* Installer: inputs *)

PackageNames == 1 .. MaxPackages

\* The RepositoryPackage fields install_packages reads.  Filename is a
\* path in a directory of the package's own; its last segment is `last`
\* (0: a segment that is no file name, as "..").
Package(n, sha256sum, last) ==
    [ name |-> n, version |-> 1, sha256sum |-> sha256sum,
      filename |-> << "pool", n, last >> ]

\* Path::file_name
file_name(path) == IF path[Len(path)] = 0 THEN None ELSE Some(path[Len(path)])

build_download_url(repository_package) ==
    << "repository_uri", "/" >> \o repository_package.filename

\* Install lists with their distance from the plain ones: the names 1..k
\* in order, each package with the checksum 1 and a file name no other
\* package has.
PackageChoices(n) ==
    { [ package |-> Package(n, 1, n), odd |-> 0 ],
      [ package |-> Package(n, 2, n), odd |-> 1 ],
      [ package |-> Package(n, 1, 0), odd |-> 1 ] } \cup
    IF n = 1 THEN {} ELSE { [ package |-> Package(n, 1, 1), odd |-> 1 ] }

\* The lists of the packages 1..k in order.
RECURSIVE ListsOf(_)
ListsOf(k) ==
    IF k = 0
    THEN { [ packages |-> << >>, odd |-> 0 ] }
    ELSE { [ packages |-> Append(l.packages, a.package), odd |-> l.odd + a.odd ] :
           l \in ListsOf(k - 1), a \in PackageChoices(k) }

Reverse(s) == [ i \in DOMAIN s |-> s[Len(s) + 1 - i] ]

InstallLists ==
    { [ packages |-> << >>, odd |-> 1 ] } \cup
    UNION { ListsOf(k) : k \in 1 .. MaxPackages } \cup
    { [ packages |-> Reverse(l.packages), odd |-> l.odd + 1 ] :
      l \in UNION { ListsOf(k) : k \in 2 .. MaxPackages } }

Distros == { [ distro |-> "jammy", odd |-> 0 ], [ distro |-> "noble", odd |-> 1 ] }

\* The compression format a member's extension announces.
Announced(compression) ==
    CASE compression = "gz" -> "gzip"
      [] compression \in { "zst", "zstd" } -> "zstd"
      [] OTHER -> compression

\* The format the data archive of an ar archive is really compressed in,
\* when it is what the name of its last member announces.
FormatOf(members) ==
    LET last == members[Len(members)]
    IN  IF Len(last) <= 1 THEN "none" ELSE Announced(last[Len(last)])

\* The bytes a server sends for a package: their SHA-256, the members of
\* the ar archive, the files of its data archive and the format these are
\* compressed in.
Body(n, sha256, members, parent, ext, contents) ==
    [ of |-> n, sha256 |-> sha256, members |-> members, format |-> FormatOf(members),
      files |-> { LayerFile([of |-> n, sha256 |-> sha256], parent, << n >>, ext, contents) } ]

Sha256(body) == body.sha256

Members(data) ==
    << << "debian-binary" >>, << "control", "tar", "zst" >> >> \o data

PlainContents == << "prefix=", "/", "usr", "\n", "Name", "\n" >>

\* The plain body of a package: the declared checksum, a data.tar.zst with
\* one pkg-config file whose prefix is /usr.
PlainBody(p) ==
    Body(p.name, p.sha256sum, Members(<< << "data", "tar", "zst" >> >>),
         PkgConfigDir, "pc", PlainContents)

\* The bodies that differ from the plain one in one respect.
OddBodies(p) ==
    { [PlainBody(p) EXCEPT !.sha256 = 0,
                           !.files = { [f EXCEPT !.origin.sha256 = 0] : f \in @ }] } \cup
    { Body(p.name, p.sha256sum, Members(data), PkgConfigDir, "pc", PlainContents) :
        data \in { << << "data", "tar", "gz" >> >>, << << "data", "tar", "xz" >> >>,
                   << << "data", "tar", "zstd" >> >>, << << "data", "tar", "bz2" >> >>,
                   << << "data", "tar" >> >>, << >> } } \cup
    { [PlainBody(p) EXCEPT !.format = "xz"] } \cup
    { Body(p.name, p.sha256sum, Members(<< << "data", "tar", "zst" >> >>),
           place[1], place[2], PlainContents) :
        place \in { << DocDir, "pc" >>, << PkgConfigDir, "txt" >> } } \cup
    { Body(p.name, p.sha256sum, Members(<< << "data", "tar", "zst" >> >>),
           PkgConfigDir, "pc", contents) :
        contents \in { << "prefix=", "usr", "\n", "Name" >>,
                       << "prefix=", "/", "/", "usr", "\r", "\n", "Name", "\r", "\n" >>,
                       << "exec_", "prefix=", "/", "usr", "\n", "prefix=", "\n" >> } }

\* A body whose data archive holds the files named at the given places:
\* the directory, the inner extensions of the name, and its extension.
LibraryBody(p, places) ==
    [PlainBody(p) EXCEPT !.files =
        { LayerFile([of |-> p.name, sha256 |-> p.sha256sum], place[1],
                    << p.name >> \o place[2], place[3], << >>) : place \in places }]

\* The bodies of packages that ship libraries and headers: in directories
\* below a root and in the root, in directories of equal path length, at
\* several depths and outside the roots, and files that are neither.
LibraryBodies(p) ==
    { LibraryBody(p, places) : places \in {
        { << << "usr", "lib", multiarch_name, "nested" >>, << "so" >>, "1" >>,
          << << "usr", "lib", multiarch_name >>, << >>, "so" >>,
          << << "usr", "lib", "other" >>, << >>, "txt" >> },
        { << << "usr", "lib", "aaa" >>, << >>, "so" >>,
          << << "usr", "lib", "bbb" >>, << "so", "1" >>, "2" >>,
          << << "usr", "include", "other" >>, << >>, "txt" >> },
        { << << "lib", multiarch_name, "nested", "deeply" >>, << "so" >>, "5" >>,
          << << "lib", multiarch_name, "nested" >>, << >>, "so" >>,
          << << "usr", "not-a-lib-dir" >>, << "so" >>, "6" >> },
        { << << "usr", "include", multiarch_name, "nested" >>, << >>, "h" >>,
          << << "usr", "include", "nested", "deeply" >>, << >>, "h" >>,
          << << "usr", "not-an-include-dir" >>, << >>, "h" >> } } }

\* The replies a server gives to one send of the request for a package: a
\* success with a body, or a client error.
Responses(p) ==
    { [ status |-> "ok", body |-> << PlainBody(p) >>, odd |-> 0 ],
      [ status |-> "4xx", body |-> << >>, odd |-> 1 ] } \cup
    { [ status |-> "ok", body |-> << b >>, odd |-> 1 ] :
        b \in OddBodies(p) \cup LibraryBodies(p) }

\* ExponentialBackoff::builder().build_with_max_retries(5)
max_n_retries == 5

\* A failed send: no response at all, a server error, or one of the two
\* client errors that ask for a later try (408, 429).
FailedSend(status) == [ status |-> status, body |-> << >> ]

Repeat(reply, k) == [ n \in 1 .. k |-> reply ]

\* The replies of a server to the sends of one request, in turn, for as
\* many sends as the client may make: one reply that ends the exchange; one
\* failure or max_n_retries failures and then a success or a client error;
\* a failure that is there at every send.
Exchanges(p) ==
    { [ replies |-> << [ status |-> r.status, body |-> r.body ] >>, odd |-> r.odd ] :
        r \in Responses(p) } \cup
    { [ replies |-> Append(Repeat(FailedSend(status), k), last), odd |-> MaxOdd ] :
        status \in { "transport", "5xx" }, k \in { 1, max_n_retries },
        last \in { [ status |-> "ok", body |-> << PlainBody(p) >> ], FailedSend("4xx") } } \cup
    { [ replies |-> << FailedSend("429"), [ status |-> "ok", body |-> << PlainBody(p) >> ] >>,
        odd |-> MaxOdd ] } \cup
    { [ replies |-> Repeat(FailedSend(status), max_n_retries + 2), odd |-> MaxOdd ] :
        status \in { "transport", "5xx" } }

----------------------------------------------------------------------------
(* Installer: install_packages *)

\* The metadata with the checksums kept in the order of the install list.
InstallationMetadataInOrder(packages, d) ==
    [ package_checksums |->
          [ i \in DOMAIN packages |-> << packages[i].name, packages[i].sha256sum >> ],
      distro |-> d ]

\* InstallationMetadata { package_checksums: HashMap, distro }
InstallationMetadata(packages, d) ==
    [ package_checksums |->
          { << packages[i].name, packages[i].sha256sum >> : i \in DOMAIN packages },
      distro |-> d ]

Outcome(kind, details) == [kind |-> kind, details |-> details]

NoOutcome == Outcome("none", << >>)

Ok == Outcome("Ok", << >>)

NoLayer == [ metadata |-> None, files |-> {}, env |-> NewLayerEnv ]

NoTempFiles == [ f \in PackageNames |-> None ]

InstallInit ==
    /\ distro = "jammy"
    /\ packages_to_install = << >>
    /\ odd = 0
    /\ builds = 0
    /\ build_pc = "idle"
    /\ new_metadata = InstallationMetadata(<< >>, "jammy")
    /\ cache = None
    /\ layer_state = [state |-> "none", cause |-> "none"]
    /\ layer = NoLayer
    /\ tasks = << >>
    /\ temp_dir = NoTempFiles
    /\ install_result = NoOutcome

\* context.cached_layer(..): no cached layer, or one whose metadata does
\* not parse, or one the restored_layer_action deletes, gives an empty
\* layer; a kept one is restored as cached.
cached_layer(metadata) ==
    IF cache = None
    THEN [ state |-> [state |-> "Empty", cause |-> "NewlyCreated"], layer |-> NoLayer ]
    ELSE IF ~cache[1].valid
    THEN [ state |-> [state |-> "Empty", cause |-> "InvalidMetadataAction"],
           layer |-> NoLayer ]
    ELSE IF cache[1].metadata = metadata
    THEN [ state |-> [state |-> "Restored", cause |-> "KeepLayer"],
           layer |-> [ metadata |-> Some(cache[1].metadata), files |-> cache[1].files,
                       env |-> cache[1].env ] ]
    ELSE [ state |-> [state |-> "Empty", cause |-> "RestoredLayerAction"],
           layer |-> NoLayer ]

\* install_packages up to `match install_layer.state`, in a fresh build
\* container.
BeginInstall ==
    /\ build_pc = "idle"
    /\ builds < MaxBuilds
    /\ \E list \in InstallLists, d \in Distros :
        /\ odd + list.odd + d.odd <= MaxOdd
        /\ odd' = odd + list.odd + d.odd
        /\ packages_to_install' = list.packages
        /\ distro' = d.distro
        /\ new_metadata' = InstallationMetadata(list.packages, d.distro)
        /\ layer_state' = cached_layer(InstallationMetadata(list.packages, d.distro)).state
        /\ layer' = cached_layer(InstallationMetadata(list.packages, d.distro)).layer
    /\ builds' = builds + 1
    /\ build_pc' = "layer"
    /\ tasks' = << >>
    /\ temp_dir' = NoTempFiles
    /\ install_result' = NoOutcome
    /\ UNCHANGED cache
    /\ UNCHANGED << resolver_vars, build_vars >>

\* LayerState::Restored: only prints.
RestoredLayer ==
    /\ build_pc = "layer"
    /\ layer_state.state = "Restored"
    /\ build_pc' = "configure"
    /\ UNCHANGED << distro, packages_to_install, odd, builds, new_metadata, cache,
                    layer_state, layer, tasks, temp_dir, install_result >>
    /\ UNCHANGED << resolver_vars, build_vars >>

\* LayerState::Empty: write_metadata(new_metadata), then one task spawned
\* per package.
EmptyLayer ==
    /\ build_pc = "layer"
    /\ layer_state.state = "Empty"
    /\ layer' = [layer EXCEPT !.metadata = Some(new_metadata)]
    /\ tasks' = [ i \in DOMAIN packages_to_install |->
                    [ pc |-> "spawned", sent |-> << >>, body |-> None,
                      result |-> NoOutcome ] ]
    /\ build_pc' = IF packages_to_install = << >> THEN "configure" ELSE "joining"
    /\ UNCHANGED << distro, packages_to_install, odd, builds, new_metadata, cache,
                    layer_state, temp_dir, install_result >>
    /\ UNCHANGED << resolver_vars, build_vars >>

\* Tasks run until install_packages has returned and the runtime is gone.
Running(i) == build_pc \in {"joining", "failed"} /\ i \in DOMAIN tasks

Finished(task, outcome) == [task EXCEPT !.pc = "finished", !.result = outcome]

\* The policy lets a send be followed by one more, every time.
should_retry_once_more(n_past_retries) == n_past_retries <= max_n_retries

\* ExponentialBackoff of max_n_retries: policy.should_retry(n_past_retries)
should_retry(n_past_retries) == n_past_retries < max_n_retries

\* The retryable strategy of RetryTransientMiddleware: a transport error, a
\* server error, 408 and 429 are transient; any other reply is final.
Transient(reply) == reply.status \in { "transport", "5xx", "429" }

\* RetryTransientMiddleware: the request is sent; after a transient failure
\* it is sent again if the policy says so, else the last reply is the
\* result. `sent` lists the replies received so far.
RECURSIVE execute_with_retry(_, _, _)
execute_with_retry(replies, n_past_retries, sent) ==
    LET reply == Head(replies) IN
    IF Transient(reply) /\ should_retry(n_past_retries)
    THEN execute_with_retry(Tail(replies), n_past_retries + 1, Append(sent, reply.status))
    ELSE [ result |-> reply, sent |-> Append(sent, reply.status) ]

\* download, up to the end of async_copy: the file name, the request, the
\* response streamed into temp_dir/<file name> and into the hasher.
TaskDownload(i) ==
    /\ Running(i)
    /\ tasks[i].pc = "spawned"
    /\ LET p == packages_to_install[i]
           download_file_name == file_name(p.filename)
       IN
        IF download_file_name = None
        THEN /\ tasks' = [tasks EXCEPT ![i] =
                            Finished(@, Outcome("InvalidFilename", << p.name, p.filename >>))]
             /\ UNCHANGED << temp_dir, odd >>
        ELSE \E exchange \in Exchanges(p) :
                LET send     == execute_with_retry(exchange.replies, 0, << >>)
                    response == send.result
                IN
                /\ odd + exchange.odd <= MaxOdd
                /\ odd' = odd + exchange.odd
                /\ IF response.status # "ok"
                   THEN /\ tasks' = [tasks EXCEPT ![i] =
                                        Finished([@ EXCEPT !.sent = send.sent],
                                                 Outcome("RequestPackage", << p.name >>))]
                        /\ UNCHANGED temp_dir
                   ELSE /\ tasks' = [tasks EXCEPT ![i] =
                                        [@ EXCEPT !.pc = "copied", !.sent = send.sent,
                                                  !.body = response.body]]
                        /\ temp_dir' = [temp_dir EXCEPT ![download_file_name[1]] = response.body]
    /\ UNCHANGED << distro, packages_to_install, builds, build_pc, new_metadata, cache,
                    layer_state, layer, install_result >>
    /\ UNCHANGED << resolver_vars, build_vars >>

\* download, the end: the hash of the streamed bytes against sha256sum.
TaskVerify(i) ==
    /\ Running(i)
    /\ tasks[i].pc = "copied"
    /\ LET p == packages_to_install[i]
           calculated_hash == Sha256(tasks[i].body[1])
           hash == p.sha256sum
       IN  tasks' = [tasks EXCEPT ![i] =
                IF hash # calculated_hash
                THEN Finished(@, Outcome("ChecksumFailed",
                                         [ url |-> build_download_url(p), expected |-> hash,
                                           actual |-> calculated_hash ]))
                ELSE [@ EXCEPT !.pc = "downloaded"]]
    /\ UNCHANGED << distro, packages_to_install, odd, builds, build_pc, new_metadata,
                    cache, layer_state, layer, temp_dir, install_result >>
    /\ UNCHANGED << resolver_vars, build_vars >>

\* A decoder for every extension, whatever it is.
GzipDecoder(compression) == Some("gzip")

\* The decoder of the arm of extract's match that a data.tar.<compression>
\* member falls into; None for the arm of an unsupported compression.
decoder(compression) ==
    CASE compression = "gz" -> Some("gzip")
      [] compression \in { "zstd", "zst" } -> Some("zstd")
      [] compression = "xz" -> Some("xz")
      [] OTHER -> None

\* TarArchive::new(decoder).unpack: the files of the data archive, when the
\* decoder is the one of the format the bytes are in.
unpack(format, data) == IF data.format = format THEN Some(data.files) ELSE None

\* extract: the members of the ar archive in turn; a data.tar.* member is
\* unpacked through its decoder or ends the walk with
\* UnsupportedCompression, any other member is ignored.
RECURSIVE extract(_, _, _)
extract(members, data, unpacked) ==
    IF members = << >>
    THEN [ result |-> Ok, files |-> unpacked ]
    ELSE LET entry_path == Head(members) IN
         IF file_stem(entry_path) = << "data", "tar" >> /\ extension(entry_path) # None
         THEN LET compression == extension(entry_path)[1] IN
              IF decoder(compression) = None
              THEN [ result |-> Outcome("UnsupportedCompression", << compression >>),
                     files |-> unpacked ]
              ELSE LET tar_archive == unpack(decoder(compression)[1], data) IN
                   IF tar_archive = None
                   THEN [ result |-> Outcome("UnpackTarball", << >>), files |-> unpacked ]
                   ELSE extract(Tail(members), data, unpacked \cup tar_archive[1])
         ELSE extract(Tail(members), data, unpacked)

\* tar unpack: the files of the archive replace those at the same place.
Unpack(files, unpacked) ==
    { f \in files : \A u \in unpacked :
                        << u.parent, u.stem, u.ext >> # << f.parent, f.stem, f.ext >> }
    \cup unpacked

\* extract(download_path, install_dir): whatever temp_dir/<file name> holds
\* by now is opened and unpacked into the layer.
TaskExtract(i) ==
    /\ Running(i)
    /\ tasks[i].pc = "downloaded"
    /\ LET p == packages_to_install[i]
           archive == temp_dir[file_name(p.filename)[1]][1]
           extracted == extract(archive.members, archive, {})
       IN  /\ layer' = [layer EXCEPT !.files = Unpack(@, extracted.files)]
           /\ tasks' = [tasks EXCEPT ![i] = Finished(@, extracted.result)]
    /\ UNCHANGED << distro, packages_to_install, odd, builds, build_pc, new_metadata,
                    cache, layer_state, temp_dir, install_result >>
    /\ UNCHANGED << resolver_vars, build_vars >>

\* `while let Some(handle) = join_next().await { handle??; }`: a finished
\* task is joined; its error ends install_packages.
JoinNext ==
    /\ build_pc = "joining"
    /\ \E i \in DOMAIN tasks :
        /\ tasks[i].pc = "finished"
        /\ IF tasks[i].result = Ok
           THEN /\ tasks' = [tasks EXCEPT ![i].pc = "joined"]
                /\ build_pc' =
                    IF \A j \in DOMAIN tasks \ {i} : tasks[j].pc = "joined"
                    THEN "configure"
                    ELSE "joining"
                /\ UNCHANGED install_result
           ELSE /\ build_pc' = "failed"
                /\ install_result' = tasks[i].result
                /\ UNCHANGED tasks
    /\ UNCHANGED << distro, packages_to_install, odd, builds, new_metadata, cache,
                    layer_state, layer, temp_dir >>
    /\ UNCHANGED << resolver_vars, build_vars >>

\* configure_layer_environment and install_layer.write_env; the walks yield
\* the entries in an order of the file system's choosing.
WriteEnv ==
    /\ build_pc = "configure"
    /\ \E walk \in Walks(layer.files) :
        layer' = [layer EXCEPT !.env = configure_layer_environment(install_path, walk)]
    /\ build_pc' = "rewrite"
    /\ UNCHANGED << distro, packages_to_install, odd, builds, new_metadata, cache,
                    layer_state, tasks, temp_dir, install_result >>
    /\ UNCHANGED << resolver_vars, build_vars >>

\* rewrite_package_configs(&install_layer.path()), then Ok(())
RewritePackageConfigs ==
    /\ build_pc = "rewrite"
    /\ layer' = [layer EXCEPT !.files = rewrite_package_configs(@)]
    /\ build_pc' = "done"
    /\ install_result' = Ok
    /\ UNCHANGED << distro, packages_to_install, odd, builds, new_metadata, cache,
                    layer_state, tasks, temp_dir >>
    /\ UNCHANGED << resolver_vars, build_vars >>

\* The end of a build: a successful build leaves its layer as the cached
\* layer of the next one (cached_layer: the layer is cached); the metadata
\* may no longer parse for the buildpack of the next build.
EndBuild ==
    /\ build_pc \in {"done", "failed"}
    /\ builds < MaxBuilds
    /\ \E valid \in BOOLEAN :
        /\ ~valid => build_pc = "done" /\ odd < MaxOdd
        /\ odd' = IF valid THEN odd ELSE odd + 1
        /\ cache' =
            IF build_pc = "done"
            THEN Some([ valid |-> valid, metadata |-> layer.metadata[1],
                        files |-> layer.files, env |-> layer.env,
                        built_from |-> [ packages |-> packages_to_install,
                                         distro |-> distro ] ])
            ELSE cache
    /\ build_pc' = "idle"
    /\ UNCHANGED << distro, packages_to_install, builds, new_metadata, layer_state,
                    layer, tasks, temp_dir, install_result >>
    /\ UNCHANGED << resolver_vars, build_vars >>

InstallNext ==
    \/ BeginInstall
    \/ RestoredLayer
    \/ EmptyLayer
    \/ \E i \in PackageNames : TaskDownload(i)
    \/ \E i \in PackageNames : TaskVerify(i)
    \/ \E i \in PackageNames : TaskExtract(i)
    \/ JoinNext
    \/ WriteEnv
    \/ RewritePackageConfigs
    \/ EndBuild

----------------------------------------------------------------------------
(* The build: the resolver's list goes to the installer *)

\* A build that goes on whatever determine_packages_to_install returned.
PackagesDeterminedOrNot == state \in {"ok", "err"}

\* build: `determine_packages_to_install(..)?` has returned Ok.
PackagesDetermined == state = "ok"

\* build: `let packages_to_install = determine_packages_to_install(..)?;`
\* then `install_packages(.., &distro, packages_to_install)`, up to
\* `match install_layer.state`; its further steps are those of InstallNext.
BuildInstallPackages ==
    /\ PackagesDetermined
    /\ builds = 0
    /\ build_pc = "idle"
    /\ packages_to_install' = result.packages_to_install
    /\ new_metadata' = InstallationMetadata(result.packages_to_install, distro)
    /\ layer_state' = cached_layer(InstallationMetadata(result.packages_to_install, distro)).state
    /\ layer' = cached_layer(InstallationMetadata(result.packages_to_install, distro)).layer
    /\ builds' = builds + 1
    /\ build_pc' = "layer"
    /\ UNCHANGED << distro, odd, cache, tasks, temp_dir, install_result >>
    /\ UNCHANGED << resolver_vars, build_vars >>

ResolverNext ==
    \/ \E n \in Names : DrawSystem(n)
    \/ \E n \in Names : DrawPackages(n)
    \/ \E v \in Names, n \in Names : DrawProvider(v, n)
    \/ \E v \in Names : SealProviders(v)
    \/ BeginRequest
    \/ VisitAlreadyOnSystem
    \/ VisitAlreadyInstalled
    \/ VisitPackage
    \/ VisitDependency
    \/ VisitPackageDone
    \/ VisitVirtual
    \/ VisitVirtualDone
    \/ EndRequest
    \/ Finish
    \/ BuildInstallPackages

----------------------------------------------------------------------------
(* Program: build, from project.toml to the source list *)

\* Custom sources a configuration may list.
MaxSources == 2

Source(uri, suites, components, signed_by, arch) ==
    [ uri |-> uri, suites |-> suites, components |-> components,
      signed_by |-> signed_by, arch |-> arch ]

CustomSource(arch, components, suites, uri, signed_by) ==
    [ arch |-> arch, components |-> components, suites |-> suites, uri |-> uri,
      signed_by |-> signed_by ]

\* CustomSource::to_sources: one Source per listed architecture.
to_sources(custom_source) ==
    [ i \in DOMAIN custom_source.arch |->
        Source(custom_source.uri, custom_source.suites, custom_source.components,
               custom_source.signed_by, custom_source.arch[i]) ]

\* ArchitectureName::from_str
ArchitectureNameFromStr(value) ==
    IF value = "amd64" THEN Some("AMD_64")
    ELSE IF value = "arm64" THEN Some("ARM_64")
    ELSE None

get_jammy_source_list ==
    << Source("http://archive.ubuntu.com/ubuntu",
              << "jammy", "jammy-security", "jammy-updates" >>,
              << "main", "universe" >>, "ubuntu_22.04.asc", "AMD_64") >>

get_noble_source_list ==
    << Source("http://archive.ubuntu.com/ubuntu", << "noble", "noble-updates" >>,
              << "main", "universe" >>, "ubuntu_24.04.asc", "AMD_64"),
       Source("http://security.ubuntu.com/ubuntu", << "noble-security" >>,
              << "main", "universe" >>, "ubuntu_24.04.asc", "AMD_64"),
       Source("http://ports.ubuntu.com/ubuntu-ports",
              << "noble", "noble-updates", "noble-security" >>,
              << "main", "universe" >>, "ubuntu_24.04.asc", "ARM_64") >>

\* Distro::get_source_list: the list of the codename, filtered by the
\* architecture.
get_source_list(d) ==
    SelectSeq(IF d.codename = "Jammy" THEN get_jammy_source_list
                                      ELSE get_noble_source_list,
              LAMBDA source : source.arch = d.architecture)

\* str::to_lowercase on the distro names a target may carry.
to_lowercase(name) == IF name = "Ubuntu" THEN "ubuntu" ELSE name

\* Distro::try_from(&Target)
DistroTryFrom(t) ==
    LET architecture == ArchitectureNameFromStr(t.arch)
        distro_of(codename) ==
            Some([ name |-> t.distro_name, version |-> t.distro_version,
                   architecture |-> architecture[1], codename |-> codename ])
    IN  IF architecture = None THEN None
        ELSE IF to_lowercase(t.distro_name) = "ubuntu" /\ t.distro_version = "22.04"
        THEN distro_of("Jammy")
        ELSE IF to_lowercase(t.distro_name) = "ubuntu" /\ t.distro_version = "24.04"
        THEN distro_of("Noble")
        ELSE None

Targets ==
    [ distro_name : { "ubuntu", "Ubuntu", "debian" },
      distro_version : { "22.04", "24.04", "20.04" },
      arch : { "amd64", "arm64", "riscv64" } ]

\* The custom sources a parsed project.toml may hold: CustomSource::try_from
\* refuses empty suites, components and arch.
CustomSources ==
    { CustomSource(arch, << "main" >>, << "stable" >>, uri, "custom.asc") :
        arch \in { << "AMD_64" >>, << "ARM_64" >>, << "AMD_64", "ARM_64" >> },
        uri \in { "https://repo.example/a", "https://repo.example/b" } }

RECURSIVE SeqsUpTo(_, _)
SeqsUpTo(S, n) ==
    IF n = 0
    THEN { << >> }
    ELSE SeqsUpTo(S, n - 1)
            \cup { Append(q, x) : q \in { r \in SeqsUpTo(S, n - 1) : Len(r) = n - 1 },
                                  x \in S }

BuildpackConfig(install, sources) == [ install |-> install, sources |-> sources ]

BuildInit ==
    /\ main_pc = "start"
    /\ config = BuildpackConfig(<< >>, << >>)
    /\ target = None
    /\ target_distro = None
    /\ source_list = << >>

\* build: `BuildpackConfig::try_from(project.toml)?`, then the early exit
\* when config.install is empty.
ReadConfig ==
    /\ main_pc = "start"
    /\ \E install \in { << >>, << RequestedPackage(1, FALSE, FALSE) >> },
          sources \in SeqsUpTo(CustomSources, MaxSources) :
        /\ config' = BuildpackConfig(install, sources)
        /\ main_pc' = IF install = << >> THEN "early_exit" ELSE "target"
    /\ UNCHANGED << target, target_distro, source_list >>
    /\ UNCHANGED << resolver_vars, install_vars >>

\* build: `let distro = Distro::try_from(&context.target)?;`
TargetDistro ==
    /\ main_pc = "target"
    /\ \E t \in Targets :
        /\ target' = Some(t)
        /\ target_distro' = DistroTryFrom(t)
        /\ main_pc' = IF DistroTryFrom(t) = None THEN "unsupported" ELSE "sources"
    /\ UNCHANGED << config, source_list >>
    /\ UNCHANGED << resolver_vars, install_vars >>

\* build: `let source_list = distro.get_source_list();`, which goes to
\* create_package_index.
SourceList ==
    /\ main_pc = "sources"
    /\ source_list' = get_source_list(target_distro[1])
    /\ main_pc' = "index"
    /\ UNCHANGED << config, target, target_distro >>
    /\ UNCHANGED << resolver_vars, install_vars >>

BuildNext ==
    \/ ReadConfig
    \/ TargetDistro
    \/ SourceList

----------------------------------------------------------------------------
(* Specifications *)

Init == ResolverInit /\ InstallInit /\ BuildInit

SpecResolve == Init /\ [][ResolverNext]_vars

SpecInstall == Init /\ [][InstallNext]_vars

SpecIndex == Init /\ [][IndexNext]_vars

SpecBuild == Init /\ [][BuildNext]_vars

----------------------------------------------------------------------------
(* Properties of the resolver *)

InstallList == result.packages_to_install

InstallNames == { InstallList[i].name : i \in DOMAIN InstallList }

NoForce == \A i \in DOMAIN requested_packages : ~requested_packages[i].force

\* Names not yet read by the resolver stand for a package without relations
\* (a real name) or for a name nothing provides (a virtual name).
DependenciesOf(n) ==
    LET found == get_highest_available_version(package_index, n)
    IN  IF found = None THEN {} ELSE Range(get_dependencies(found[1]))

\* The package names a name stands for: itself, or its single provider.
StandsFor(n) ==
    IF n \in RealNames
    THEN {n}
    ELSE IF Cardinality(get_providers(package_index, n)) = 1
    THEN get_providers(package_index, n)
    ELSE {}

RECURSIVE Reachable(_, _)
Reachable(from, k) ==
    IF k = 0
    THEN from
    ELSE Reachable(from \cup
                   (UNION { StandsFor(d) :
                            d \in UNION { DependenciesOf(n) : n \in from } \ system_packages }
                    \ system_packages),
                   k - 1)

\* C2: after determine_packages_to_install succeeded, every package
\* reachable from a request without skip_dependencies through Depends and
\* Pre-Depends (a virtual name standing for its single provider, not going
\* through system-installed packages) is in the install list.
C2_DependencyClosed ==
    state = "ok" =>
        \A i \in DOMAIN requested_packages :
            LET r == requested_packages[i] IN
            (~r.skip_dependencies /\ r.name \notin system_packages) =>
                Reachable(StandsFor(r.name) \ system_packages, NumReal) \subseteq InstallNames

RECURSIVE RealReach(_, _)
RealReach(from, k) ==
    IF k = 0
    THEN from
    ELSE RealReach(from \cup (UNION { DependenciesOf(n) : n \in from } \cap RealNames), k - 1)

DependsOn(a, b) == b \in RealReach(DependenciesOf(a) \cap RealNames, NumReal)

CycleOf(a) == { b \in RealNames : DependsOn(a, b) /\ DependsOn(b, a) }

Occurrences(n) == Cardinality({ i \in DOMAIN InstallList : InstallList[i].name = n })

\* C3: when the requested package A depends on B and B depends on A,
\* resolving the request for A terminates, and (for a request without
\* skip_dependencies, the packages not being on the system) each package
\* of the cycle is in the install order exactly once.
C3_CycleSafety ==
    /\ state = "overflow" => CycleOf(requested_package.name) \ {requested_package.name} = {}
    /\ state = "ok" =>
        \A i \in DOMAIN requested_packages :
            LET r == requested_packages[i] IN
            (/\ ~r.skip_dependencies
             /\ CycleOf(r.name) \ {r.name} # {}
             /\ CycleOf(r.name) \cap system_packages = {}) =>
                \A b \in CycleOf(r.name) : Occurrences(b) = 1

\* C7: for a wishlist without force requests, no package of the returned
\* install list has a name that is a key of the system-installed map.
C7_NothingOnSystemInstalled ==
    (state = "ok" /\ NoForce) => InstallNames \cap system_packages = {}

\* A wishlist without force whose install list is not empty although a
\* system-installed package was requested directly, is a dependency of an
\* installed package and is the provider of a virtual dependency of it.
C7_Witness ==
    /\ state = "ok"
    /\ NoForce
    /\ \E q \in system_packages, n \in InstallNames :
        /\ \E i \in DOMAIN requested_packages : requested_packages[i].name = q
        /\ q \in DependenciesOf(n)
        /\ \E v \in DependenciesOf(n) \cap VirtualNames :
                get_providers(package_index, v) = {q}

EarlierRequests(i) ==
    UNION { StandsFor(requested_packages[j].name) \cup {requested_packages[j].name} :
            j \in 1 .. (i - 1) }

\* C8: a top-level request that is system-installed or already recorded by
\* an earlier request yields its warning (the resolver goes on, it does
\* not abort), AlreadyInstalledByOtherPackage names an earlier top-level
\* request, and no such warning is emitted for a transitive dependency.
C8_AlreadyInstalledWarnings ==
    /\ state # "panic"
    /\ \A i \in DOMAIN warnings :
        LET w == warnings[i] IN
        w.kind \in {"AlreadyInstalledOnSystem", "AlreadyInstalledByOtherPackage"} =>
            /\ ~w.transitive
            /\ w.kind = "AlreadyInstalledByOtherPackage" =>
                    w.installed_by \in EarlierRequests(w.request)

\* C9: a top-level request with force = true whose name is installed on the
\* system is in the install list and is not skipped as
\* AlreadyInstalledOnSystem.
C9_ForcedIsAdded ==
    \A i \in DOMAIN requested_packages :
        LET r == requested_packages[i] IN
        (r.force /\ r.name \in RealNames \cap system_packages) =>
            /\ \A j \in DOMAIN warnings :
                ~(warnings[j].kind = "AlreadyInstalledOnSystem" /\ warnings[j].request = i)
            /\ state = "ok" => r.name \in InstallNames

\* C10: a name with no package of its own and exactly one provider has the
\* highest version of the provider recorded, and the warning
\* VirtualPackageHasOnlyOneImplementor is emitted only when the virtual
\* name is a top-level request.
C10_SingleProvider ==
    /\ \A i \in DOMAIN warnings :
        warnings[i].kind = "VirtualPackageHasOnlyOneImplementor" =>
            \E j \in DOMAIN requested_packages :
                /\ requested_packages[j].name = warnings[i].requested_package
                /\ ~warnings[i].transitive
    /\ state = "ok" =>
        \A i \in DOMAIN requested_packages :
            LET v == requested_packages[i].name IN
            (v \in VirtualNames \ system_packages) =>
                \A q \in StandsFor(v) \ system_packages :
                    \E k \in DOMAIN InstallList :
                        InstallList[k] = get_highest_available_version(package_index, q)[1]

\* The names of the added packages that have v among their Provides atoms.
ProvidersOf(v) ==
    { added[i].name : i \in { j \in DOMAIN added : v \in provides_dependencies(added[j]) } }

\* A step of visit (the steps that draw inputs change neither).
VisitStep == calls' # calls \/ state' # state

Failure(kind, n, providers) ==
    [ kind |-> kind, package |-> n, providers |-> providers, packages_to_install |-> << >> ]

\* Once determine_packages_to_install has failed, nothing follows.
FailureIsFinal == state = "err" => UNCHANGED vars

\* C11, as stated: visit of a name that has no package in the index and
\* two or more providers fails with VirtualPackageMustBeSpecified(name, the
\* names of all packages providing it), and no install list is returned.
C11_ManyProvidersAlwaysFail ==
    [][ /\ FailureIsFinal
        /\ (/\ AtEnter
             /\ Top.package \in VirtualNames
             /\ Cardinality(ProvidersOf(Top.package)) >= 2
             /\ VisitStep)
            => /\ state' = "err"
               /\ result' = Failure("VirtualPackageMustBeSpecified", Top.package,
                                     ProvidersOf(Top.package)) ]_vars

\* C11, amended: the same for a name that is not a key of the
\* system-installed map.
C11_ManyProvidersFail ==
    [][ /\ FailureIsFinal
        /\ (/\ AtEnter
             /\ Top.package \in VirtualNames \ system_packages
             /\ Cardinality(ProvidersOf(Top.package)) >= 2
             /\ VisitStep)
            => /\ state' = "err"
               /\ result' = Failure("VirtualPackageMustBeSpecified", Top.package,
                                     ProvidersOf(Top.package)) ]_vars

\* Resolution failed at a dependency that two packages provide.
C11_Witness ==
    /\ state = "err"
    /\ result.kind = "VirtualPackageMustBeSpecified"
    /\ Cardinality(result.providers) >= 2
    /\ result.providers = ProvidersOf(result.package)
    /\ Len(calls) >= 2
    /\ \E i \in DOMAIN calls : calls[i].pc = "loop"

NothingInstalled ==
    /\ builds = 0
    /\ build_pc = "idle"
    /\ layer = NoLayer
    /\ layer_state.state = "none"
    /\ cache = None

\* C12, as stated: visit of a requested name or of a dependency that has
\* neither a package nor a provider in the index fails with
\* PackageNotFound(name), and after the failure install_packages is never
\* invoked: no layer, no metadata, no env, no contents.
C12_NotFoundAlwaysFails ==
    [][ /\ FailureIsFinal
        /\ state' = "err" => NothingInstalled'
        /\ (/\ AtEnter
             /\ Top.package \in VirtualNames
             /\ ProvidersOf(Top.package) = {}
             /\ VisitStep)
            => /\ state' = "err"
               /\ result' = Failure("PackageNotFound", Top.package, {}) ]_vars

\* C12, amended: the same for a name that is not a key of the
\* system-installed map.
C12_NotFoundFails ==
    [][ /\ FailureIsFinal
        /\ state' = "err" => NothingInstalled'
        /\ (/\ AtEnter
             /\ Top.package \in VirtualNames \ system_packages
             /\ ProvidersOf(Top.package) = {}
             /\ VisitStep)
            => /\ state' = "err"
               /\ result' = Failure("PackageNotFound", Top.package, {}) ]_vars

\* The build failed at a dependency that nothing provides, after an
\* earlier request was resolved.
C12_Witness ==
    /\ state = "err"
    /\ result.kind = "PackageNotFound"
    /\ ProvidersOf(result.package) = {}
    /\ Len(calls) >= 2
    /\ \E i \in DOMAIN calls : calls[i].pc = "loop"
    /\ system_install_details # << >>
    /\ NothingInstalled

\* C14: every install record made while the request R is resolved has as
\* dependency_path the chain of names from R down to its direct dependent:
\* the path is empty exactly for the package named R, any other path
\* begins with R and ends with a name that stands for a package depending
\* on the record's package (or with the virtual name R itself, for its
\* provider, whose path is [R]).
C14_DependencyPath ==
    state = "visit" =>
        \A i \in DOMAIN package_install_details :
            LET record == package_install_details[i].value
                path == record.dependency_path
                name == record.repository_package.name
                R == requested_package.name
            IN  /\ (path = << >>) <=> (name = R)
                /\ path # << >> =>
                    /\ Head(path) = R
                    /\ LET dependent == path[Len(path)] IN
                        \/ dependent \in VirtualNames /\ name \in StandsFor(dependent)
                        \/ name \in UNION { StandsFor(d) : d \in DependenciesOf(dependent) }
                /\ (R \in VirtualNames /\ name \in StandsFor(R)) => path = << R >>

\* The depth-first pre-order of one request: a name on the system or
\* recorded by an earlier request is passed over, a name without packages
\* stands for its single provider, a package is recorded when first
\* reached and its dependencies follow in their declared order.
RECURSIVE PreOrder(_, _, _, _)
RECURSIVE PreOrderAll(_, _, _, _)
PreOrder(name, skip, recorded, earlier) ==
    IF name \in system_packages \/ name \in Range(earlier)
    THEN recorded
    ELSE LET found == get_highest_available_version(package_index, name) IN
         IF found = None
         THEN IF Cardinality(get_providers(package_index, name)) = 1
              THEN PreOrder(CHOOSE n \in get_providers(package_index, name) : TRUE,
                            skip, recorded, earlier)
              ELSE recorded
         ELSE IF name \in Range(recorded)
         THEN recorded
         ELSE PreOrderAll(IF skip THEN << >> ELSE get_dependencies(found[1]),
                          skip, Append(recorded, name), earlier)

PreOrderAll(dependencies, skip, recorded, earlier) ==
    IF dependencies = << >>
    THEN recorded
    ELSE PreOrderAll(Tail(dependencies), skip,
                     IF Head(dependencies) \in system_packages \cup Range(recorded)
                     THEN recorded
                     ELSE PreOrder(Head(dependencies), skip, recorded, earlier),
                     earlier)

\* The requests in their order, each after the records of the earlier ones.
RECURSIVE FirstRecordings(_, _)
FirstRecordings(requests, earlier) ==
    IF requests = << >>
    THEN earlier
    ELSE FirstRecordings(Tail(requests),
                         earlier \o PreOrder(Head(requests).name,
                                             Head(requests).skip_dependencies,
                                             << >>, earlier))

\* C15: the returned install list is ordered by first recording: the
\* requests in their order, within a request the packages in depth-first
\* pre-order over the dependencies in declared order, a package reached
\* again keeping its first place; the list is this function of the index,
\* the system map and the wishlist.
C15_FirstRecordingOrder ==
    state = "ok" =>
        [ i \in DOMAIN InstallList |-> InstallList[i].name ]
            = FirstRecordings(requested_packages, << >>)

\* C16: while and after a request with skip_dependencies = true is
\* resolved, the request has added at most one record, that of the package
\* it names or of the single provider of the virtual name it names, and no
\* activation of visit is for a dependency: the only nested call is the one
\* for the provider.
C16_SkipDependencies ==
    (state \in {"visit", "idle"} /\ requested_packages # << >>
        /\ requested_package.skip_dependencies) =>
        /\ Len(package_install_details) <= 1
        /\ \A i \in DOMAIN package_install_details :
              LET name == package_install_details[i].key IN
              /\ package_install_details[i].value.repository_package.name = name
              /\ \/ name = requested_package.name
                 \/ /\ get_highest_available_version(package_index,
                                                      requested_package.name) = None
                    /\ get_providers(package_index, requested_package.name) = {name}
        /\ Len(calls) <= 2
        /\ \A i \in DOMAIN calls :
              /\ i > 1 => calls[i - 1].pc = "virtual"
              /\ calls[i].pc = "loop" => calls[i].next = 1

\* A finished request with skip_dependencies whose one record is a package
\* with a dependency that is neither on the system nor recorded.
C16_Witness ==
    /\ state = "idle"
    /\ requested_packages # << >>
    /\ requested_package.skip_dependencies
    /\ Len(package_install_details) = 1
    /\ \E d \in Range(get_dependencies(package_install_details[1].value.repository_package)) :
          /\ d \notin system_packages
          /\ d \notin IndexMapKeys(system_install_details)

\* C24: a visit with an empty visit_stack that finds its package recorded
\* by an earlier request finds a record with a non-empty dependency_path:
\* taking its first element never panics.
C24_DependencyPathNonEmpty ==
    /\ state # "panic"
    /\ (/\ AtEnter
        /\ visit_stack = << >>
        /\ Top.package \in env.asked \ system_packages
        /\ Top.package \in IndexMapKeys(system_install_details)) =>
            IndexMapGet(system_install_details, Top.package).dependency_path # << >>

\* C25: visit is never called for a name for which an enclosing call of
\* the same request is active with nothing recorded in between: the
\* recursion is bounded, also through virtual names.
C25_BoundedRecursion ==
    /\ state # "overflow"
    /\ \A i, j \in DOMAIN calls :
          (i < j /\ calls[i].package = calls[j].package) =>
              calls[i].size_at_entry < calls[j].size_at_entry

\* The packages whose dependencies are being expanded, outermost first.
Expanding ==
    LET expanding == SelectSeq(calls, LAMBDA frame : frame.pc = "loop")
    IN  [ i \in DOMAIN expanding |-> expanding[i].repository_package.name ]

\* C26: while a request is resolved visit_stack holds the names of the
\* packages whose dependencies are being expanded, outermost first; a call
\* of visit that returned has left it as it was at entry.
C26_StackDiscipline ==
    state = "visit" => visit_stack = Expanding

----------------------------------------------------------------------------
(* Properties of the build before the package index *)

\* C18: the source list the package index is built from contains, for
\* every custom source of the configuration and every architecture it
\* lists that is the build's, the Source with its uri, suites, components
\* and signing key.
C18_CustomSourcesInSourceList ==
    main_pc = "index" =>
        \A i \in DOMAIN config.sources :
            \A j \in DOMAIN config.sources[i].arch :
                config.sources[i].arch[j] = target_distro[1].architecture =>
                    to_sources(config.sources[i])[j] \in Range(source_list)

\* C28: a target that Distro::try_from accepts has a source list that is
\* not empty, and every Source of it has the distro's architecture.
C28_AcceptedDistroHasSources ==
    main_pc = "index" =>
        /\ source_list # << >>
        /\ \A i \in DOMAIN source_list :
              source_list[i].arch = target_distro[1].architecture

----------------------------------------------------------------------------
(* Properties of the package index *)

AddedNamed(n) == SelectSeq(added, LAMBDA p : p.name = n)

\* The orders in which the add_package calls made so far can be made.
Reorderings(s) ==
    { [ i \in DOMAIN s |-> s[f[i]] ] :
        f \in { g \in [DOMAIN s -> DOMAIN s] :
                    \A i, j \in DOMAIN s : g[i] = g[j] => i = j } }

\* C13: after any sequence of add_package calls,
\* get_highest_available_version(n) is none exactly when no package named
\* n was added; otherwise it is an added package named n whose version is
\* at least that of every added package named n, and that version is the
\* same for every order of the calls.
C13_HighestVersion ==
    \A n \in Names :
        LET found == get_highest_available_version(package_index, n)
            named == AddedNamed(n)
        IN  /\ (found = None) <=> (named = << >>)
            /\ found # None =>
                /\ found[1].name = n
                /\ found[1] \in Range(named)
                /\ \A p \in Range(named) : p.version <= found[1].version
                /\ \A other \in Reorderings(added) :
                    LET again == get_highest_available_version(
                                     AddAll(PackageIndexDefault, other), n)
                    IN  again # None /\ again[1].version = found[1].version

\* Three packages of one name, the one of the highest version added
\* neither first nor last.
C13_Witness ==
    \E n \in Names :
        LET named == AddedNamed(n) IN
        /\ Len(named) = 3
        /\ named[1].version < named[2].version
        /\ named[3].version < named[2].version
        /\ get_highest_available_version(package_index, n) = Some(named[2])

\* C17: after any sequence of add_package calls, the packages listed as
\* providers of a name v are the added packages that have v among their
\* Provides atoms, each as often as it was added; a name nothing provides
\* has no providers, whether or not a package of that name exists.
C17_ProvidersIndexed ==
    \A v \in Names :
        LET providing == SelectSeq(added, LAMBDA p : v \in provides_dependencies(p))
            listed == get_virtual_package_providers(package_index, v)
        IN  /\ (listed = None) <=> (providing = << >>)
            /\ listed # None => listed[1] = providing
            /\ get_providers(package_index, v) = { p.name : p \in Range(providing) }
            /\ \A p \in Range(added) :
                    /\ get_highest_available_version(package_index, p.name) # None
                    /\ \A a \in provides_dependencies(p) :
                            LET under == get_virtual_package_providers(package_index, a)
                            IN  under # None /\ p \in Range(under[1])

\* A name that has a package and no provider, beside a name two packages
\* provide, one of them with a second Provides atom.
C17_Witness ==
    /\ \E n \in Names :
        /\ AddedNamed(n) # << >>
        /\ get_virtual_package_providers(package_index, n) = None
    /\ \E v \in Names :
        /\ get_virtual_package_providers(package_index, v) # None
        /\ Cardinality(get_providers(package_index, v)) = 2
        /\ \E p \in Range(get_virtual_package_providers(package_index, v)[1]) :
                Cardinality(provides_dependencies(p)) = 2

----------------------------------------------------------------------------
(* Properties of the installer *)

BeginsWithPrefix(line) == strip_prefix(line, << "prefix=" >>) # None

\* Every `prefix=` line of f has a value under the layer's path, and the
\* other lines are those of the archive.
PrefixUnderLayer(f) ==
    LET now == lines(f.contents)
        before == lines(f.archived)
    IN  /\ Len(now) = Len(before)
        /\ \A k \in DOMAIN now :
            IF BeginsWithPrefix(now[k])
            THEN strip_prefix(strip_prefix(now[k], << "prefix=" >>)[1], install_path) # None
            ELSE now[k] = before[k]

\* C1: a task whose downloaded bytes do not have the declared SHA-256 ends
\* with ChecksumFailed{url, expected, actual}, never gets to extraction,
\* and no file of the archive it downloaded is in the install layer.
C1_ExtractOnlyVerified ==
    \A i \in DOMAIN tasks :
        LET p == packages_to_install[i]
            t == tasks[i]
        IN  (t.body # None /\ Sha256(t.body[1]) # p.sha256sum) =>
                /\ t.pc # "downloaded"
                /\ t.pc \in {"finished", "joined"} =>
                        t.result = Outcome("ChecksumFailed",
                                           [ url |-> build_download_url(p),
                                             expected |-> p.sha256sum,
                                             actual |-> Sha256(t.body[1]) ])
                /\ \A f \in layer.files :
                        f.origin # [of |-> p.name, sha256 |-> Sha256(t.body[1])]

Checksums(packages) ==
    { << packages[i].name, packages[i].sha256sum >> : i \in DOMAIN packages }

SameInstallation ==
    /\ cache[1].built_from.distro = distro
    /\ Checksums(cache[1].built_from.packages) = Checksums(packages_to_install)

\* C4: a build that finds a cached layer keeps it, and downloads and
\* extracts nothing, exactly when the cached map name -> sha256 and distro
\* equal the new ones; otherwise the layer is emptied, the new metadata is
\* written, and every package of the list is downloaded and extracted.
C4_CachedLayerKeptIffSame ==
    (cache # None /\ build_pc # "idle") =>
        IF cache[1].valid /\ SameInstallation
        THEN /\ layer_state.state = "Restored"
             /\ tasks = << >>
             /\ temp_dir = NoTempFiles
             /\ layer.metadata = Some(cache[1].metadata)
             /\ build_pc \in {"layer", "configure", "rewrite"} =>
                    layer.files = cache[1].files
        ELSE /\ layer_state.state = "Empty"
             /\ build_pc = "layer" => layer = NoLayer
             /\ build_pc # "layer" => layer.metadata = Some(new_metadata)
             /\ build_pc \in {"configure", "rewrite", "done"} =>
                    \A i \in DOMAIN packages_to_install :
                        /\ tasks[i].pc = "joined"
                        /\ tasks[i].body # None
                        /\ tasks[i].result = Ok

\* A finished build that found a cached layer with other checksums and
\* downloaded its packages again.
C4_Witness ==
    /\ build_pc = "done"
    /\ cache # None
    /\ cache[1].valid
    /\ cache[1].built_from.distro = distro
    /\ Checksums(cache[1].built_from.packages) # Checksums(packages_to_install)
    /\ packages_to_install # << >>
    /\ layer.files # {}

\* C5: a second run with the same InstallationMetadata on the restored
\* layer leaves the files of the layer as the first run left them.
C5_SecondRunChangesNothing ==
    (build_pc = "done" /\ layer_state.state = "Restored") =>
        layer.files = cache[1].files

RECURSIVE split_into_paths(_)
split_into_paths(value) ==
    IF value = << >>
    THEN << >>
    ELSE IF \E i \in DOMAIN value : value[i] = ":"
    THEN LET i == CHOOSE i \in DOMAIN value :
                      /\ value[i] = ":"
                      /\ \A j \in 1 .. (i - 1) : value[j] # ":"
         IN  << SubSeq(value, 1, i - 1) >>
                 \o split_into_paths(SubSeq(value, i + 1, Len(value)))
    ELSE << value >>

\* A name with `so` as one of its extensions; a name whose extension is `h`.
SharedLibraryName(name) == \E i \in 2 .. Len(name) : name[i] = "so"

HeaderName(name) == Len(name) >= 2 /\ name[Len(name)] = "h"

\* The first of the roots that the directory is, or is below.
GroupOf(roots, dir) ==
    CHOOSE g \in DOMAIN roots :
        /\ starts_with(dir, layer_dir(install_path, roots[g]))
        /\ \A h \in 1 .. (g - 1) : ~starts_with(dir, layer_dir(install_path, roots[h]))

\* The value lists each root and each directory below a root that directly
\* holds a file so named, once and nothing else, root by root, inside a
\* root's group by descending path length with the root last.
ListsByRoot(value, roots, extension_sought) ==
    LET listed == split_into_paths(value)
        RootDirs == { layer_dir(install_path, roots[g]) : g \in DOMAIN roots }
    IN  /\ \A i, j \in DOMAIN listed : i # j => listed[i] # listed[j]
        /\ Range(listed) =
              RootDirs \cup
              { layer_dir(install_path, f.parent) :
                  f \in { e \in layer.files :
                            /\ IF extension_sought = "so"
                               THEN SharedLibraryName(entry_name(e))
                               ELSE HeaderName(entry_name(e))
                            /\ \E g \in DOMAIN roots : starts_with(e.parent, roots[g]) } }
        /\ \A i, j \in DOMAIN listed :
              i < j =>
                  \/ GroupOf(roots, listed[i]) < GroupOf(roots, listed[j])
                  \/ /\ GroupOf(roots, listed[i]) = GroupOf(roots, listed[j])
                     /\ os_str_len(listed[i]) >= os_str_len(listed[j])
                     /\ listed[i] \notin RootDirs

\* C19: once the environment is written, LD_LIBRARY_PATH and LIBRARY_PATH
\* list, for each root usr/lib/M, usr/lib, lib/M, lib in this order, the
\* directories below it that directly hold a shared-library file and are
\* not listed yet, the longest path first, then the root; each directory
\* once, none outside the roots.  INCLUDE_PATH, CPATH and CPPPATH do the
\* same with `.h` files and the roots usr/include/M, usr/include.
C19_LibraryAndIncludePaths ==
    build_pc \in {"rewrite", "done"} =>
        /\ ListsByRoot(layer.env["LD_LIBRARY_PATH"], LibraryRoots, "so")
        /\ layer.env["LIBRARY_PATH"] = layer.env["LD_LIBRARY_PATH"]
        /\ ListsByRoot(layer.env["INCLUDE_PATH"], IncludeRoots, "h")
        /\ layer.env["CPATH"] = layer.env["INCLUDE_PATH"]
        /\ layer.env["CPPPATH"] = layer.env["INCLUDE_PATH"]

\* A finished build whose layer holds shared libraries in two directories
\* of different path length below the root lib/M, and a shared library
\* outside the roots.
C19_Witness ==
    /\ build_pc = "done"
    /\ \E f, g \in layer.files :
          /\ SharedLibraryName(entry_name(f))
          /\ SharedLibraryName(entry_name(g))
          /\ starts_with(f.parent, LibraryRoots[3])
          /\ starts_with(g.parent, LibraryRoots[3])
          /\ Len(f.parent) > Len(g.parent)
          /\ Len(g.parent) > Len(LibraryRoots[3])
    /\ \E h \in layer.files :
          /\ SharedLibraryName(entry_name(h))
          /\ \A g \in DOMAIN LibraryRoots : ~starts_with(h.parent, LibraryRoots[g])

\* C20: a build with the install list and distro of the build that left
\* the cached layer, over the same files in the layer, writes the metadata
\* and the environment that build wrote, whatever the order of the tasks
\* and of the walk.
C20_SameInputsSameLayer ==
    (/\ build_pc = "done"
     /\ cache # None
     /\ cache[1].built_from.packages = packages_to_install
     /\ cache[1].built_from.distro = distro
     /\ layer.files = cache[1].files) =>
        /\ layer.metadata = Some(cache[1].metadata)
        /\ layer.env = cache[1].env

\* C21: when install_packages has returned the error of a task, that task
\* had finished with this error, the environment is not written, no
\* pkg-config file is rewritten, and every other task has finished or was
\* joined: none is left that still writes to the layer.
C21_FailureJoinsTasks ==
    build_pc = "failed" =>
        /\ install_result # Ok
        /\ \E i \in DOMAIN tasks :
              tasks[i].pc = "finished" /\ tasks[i].result = install_result
        /\ layer.env = NewLayerEnv
        /\ \A f \in layer.files : f.contents = f.archived
        /\ \A i \in DOMAIN tasks : tasks[i].pc \in {"finished", "joined"}

\* C27: when install_packages has failed, the metadata stored on the
\* install layer is not the new InstallationMetadata.
C27_FailedLayerNotKeyed ==
    build_pc = "failed" => layer.metadata # Some(new_metadata)

\* C29: the tasks of one build download to different paths, and the file a
\* task is about to extract holds the bytes of its own package.
C29_OwnTempFile ==
    build_pc = "joining" =>
        /\ \A i, j \in DOMAIN tasks :
              (/\ i # j
               /\ file_name(packages_to_install[i].filename) # None
               /\ file_name(packages_to_install[j].filename) # None) =>
                  file_name(packages_to_install[i].filename)
                      # file_name(packages_to_install[j].filename)
        /\ \A i \in DOMAIN tasks :
              tasks[i].pc \in {"copied", "downloaded"} =>
                  temp_dir[file_name(packages_to_install[i].filename)[1]] = tasks[i].body

\* C30: a task whose extract returned Ok has unpacked the files of the
\* data archive it downloaded: they are in the layer.
C30_OkMeansUnpacked ==
    \A i \in DOMAIN tasks :
        (tasks[i].pc \in {"finished", "joined"} /\ tasks[i].result = Ok) =>
            \A f \in tasks[i].body[1].files :
                \E g \in layer.files :
                    /\ g.origin = f.origin
                    /\ << g.parent, g.stem, g.ext >> = << f.parent, f.stem, f.ext >>


\* The members of an ar archive named data.tar.<extension>, by position.
DataMembers(members) ==
    { k \in DOMAIN members :
        Len(members[k]) = 3 /\ members[k][1] = "data" /\ members[k][2] = "tar" }

Recognised == { "gz", "xz", "zst", "zstd" }

\* The position of the first data member of another extension; 0 if none.
FirstUnsupported(members) ==
    LET others == { k \in DataMembers(members) : members[k][3] \notin Recognised }
    IN  IF others = {} THEN 0
        ELSE CHOOSE k \in others : \A l \in others : k <= l

\* The decoder that matches the name of a recognised data member.
Matching(name) ==
    CASE name[3] = "gz" -> "gzip"
      [] name[3] = "xz" -> "xz"
      [] name[3] \in { "zst", "zstd" } -> "zstd"

\* The data members extract comes to: those before the first unsupported one.
Unpacked(members) ==
    { k \in DataMembers(members) :
        FirstUnsupported(members) = 0 \/ k < FirstUnsupported(members) }

\* C23: extract unpacks each member named data.tar.gz, .xz, .zst or .zstd
\* through the decoder of that format (a data archive in the format its name
\* announces is unpacked into the layer), fails with UnsupportedCompression
\* on the first data.tar.<other extension>, and passes over every other
\* member without an error and without a write to the layer.
C23_ExtractByMemberName ==
    [][ \A i \in DOMAIN tasks :
          (tasks[i].pc = "downloaded" /\ i \in DOMAIN tasks' /\ tasks'[i].pc = "finished") =>
            LET archive == temp_dir[file_name(packages_to_install[i].filename)[1]][1]
                members == archive.members
                bad     == FirstUnsupported(members)
                well_formed ==
                    \A k \in Unpacked(members) : archive.format = Matching(members[k])
            IN  well_formed =>
                  /\ tasks'[i].result =
                        IF bad = 0 THEN Ok
                        ELSE Outcome("UnsupportedCompression", << members[bad][3] >>)
                  /\ layer'.files =
                        IF Unpacked(members) = {} THEN layer.files
                        ELSE Unpack(layer.files, archive.files) ]_vars

\* Tasks have extracted a data.tar.gz into the layer and found an archive
\* with an unsupported compression, in a layer that already held files.
C23_Witness ==
    \E i, j \in DOMAIN tasks :
        /\ tasks[i].pc \in { "finished", "joined" }
        /\ tasks[i].result = Ok
        /\ tasks[i].body # << >>
        /\ << "data", "tar", "gz" >> \in { tasks[i].body[1].members[k] :
                                            k \in DOMAIN tasks[i].body[1].members }
        /\ tasks[i].body[1].files \subseteq layer.files
        /\ tasks[j].pc = "finished"
        /\ tasks[j].result = Outcome("UnsupportedCompression", << "bz2" >>)


\* The replies after which the request may be sent again.
Retried == { "transport", "5xx", "429" }

OkReplies(sent) == { k \in DOMAIN sent : sent[k] = "ok" }

====
